---- MODULE Spec2Model ----
(***************************************************************************)
(* Model of the music library of Cpp-Simple-Scales (musiclibrary.hpp and   *)
(* musiclibrary.cpp): the Note, Scale and RealisedScale classes, with the  *)
(* default ENGLISH_NAMING build, and of the quiz session of the           *)
(* application (scalemanager.cpp, applicationmanager.cpp, main.cpp).       *)
(*                                                                         *)
(* Text is a sequence of one-character strings.  A std::optional<T> is a   *)
(* sequence of length 0 (nullopt) or 1 (a value).  A function that can     *)
(* throw returns a record whose  err  field names the exception            *)
(* ("none" when it returns normally).                                      *)
(***************************************************************************)
EXTENDS Integers, Sequences, FiniteSets, TLC

VARIABLES
    pc,        \* position of the calling program
    root,      \* optional<Note>: the Note used as scale root
    rootCall,  \* the call that built or re-assigned root, with its arguments
    note,      \* optional<Note>: the Note built from the root
    call,      \* the last call made once the root exists, with its arguments
    scale,     \* Scale::_scale_degrees of the Scale being realised
    notes,     \* optional: RealisedScale::_notes
    err,       \* exception thrown by the last call, "none" if it returned
    ret,       \* optional: value returned by the last accessor call
    reparsed,  \* Scale::_scale_degrees of the Scale parsed from rendered text
    sm,        \* ScaleManager: the loaded entries
    am,        \* ApplicationManager: session, question index, results
    prog       \* main and the calls it is in: position and local variables

libraryVars == <<pc, root, rootCall, note, call, scale, notes, err, ret, reparsed>>

vars == <<pc, root, rootCall, note, call, scale, notes, err, ret, reparsed, sm, am, prog>>

-----------------------------------------------------------------------------
(* Bounds of the model *)

MinMidi == 46
MaxMidi == 74
MaxDegree == 15
MaxAcc == 2
MaxRootAcc == 2
MaxScaleLen == 2
MaxTokens == 2
MaxEntries == 4
MaxQuestions == 2

-----------------------------------------------------------------------------
(* Program constants *)

MIDDLE_C_MIDI == 60
MIDDLE_C_OCTAVE == 4
NOTES_PER_OCTAVE == 12
NUMBER_OF_SCALE_DEGREES == 7

NOTE_PRINT_SEPERATOR == "/"
SCALE_DEGREE_SEPERATOR == ","
downward_accidental == "b"
upward_accidental == "#"

note_names == <<"C", "D", "E", "F", "G", "A", "B">>

-----------------------------------------------------------------------------
(* C++ integer arithmetic and std::optional *)

Abs(a) == IF a < 0 THEN -a ELSE a

\* int division truncates towards zero
CDiv(a, b) == IF a >= 0 THEN a \div b ELSE -((-a) \div b)

\* int remainder has the sign of the dividend
CRem(a, b) == a - b * CDiv(a, b)

nullopt == <<>>

Some(v) == <<v>>

has_value(o) == Len(o) = 1

value(o) == o[1]

-----------------------------------------------------------------------------
(* The static tables of Note *)

scale_midi_offset_to_scale_degree_and_accidental ==
    << <<0, <<0, 0>>>>,  <<1, <<0, 1>>>>,  <<1, <<1, -1>>>>, <<2, <<1, 0>>>>,
       <<3, <<1, 1>>>>,  <<3, <<2, -1>>>>, <<4, <<2, 0>>>>,  <<5, <<3, 0>>>>,
       <<6, <<3, 1>>>>,  <<6, <<4, -1>>>>, <<7, <<4, 0>>>>,  <<8, <<4, 1>>>>,
       <<8, <<5, -1>>>>, <<9, <<5, 0>>>>,  <<10, <<5, 1>>>>, <<10, <<6, -1>>>>,
       <<11, <<6, 0>>>> >>

\* std::multimap::equal_range: the entries of a key, in insertion order
equal_range(key) ==
    LET HasKey(e) == e[1] = key
    IN  SelectSeq(scale_midi_offset_to_scale_degree_and_accidental, HasKey)

scale_degree_to_midi_diff ==
    [i \in 0 .. 6 |-> <<0, 2, 4, 5, 7, 9, 11>>[i + 1]]

-----------------------------------------------------------------------------
(* Note::NamingInformation and Note::MIDIInformation *)

\* the constructor's range check on base_degree
NamingInformationThrows(base_degree) == base_degree > Len(note_names) - 1

NamingInformation(base_degree, accidentals) ==
    [base_degree_ |-> base_degree, accidentals_ |-> accidentals]

MIDIInformation(midi_val) ==
    [midi_value_ |-> midi_val,
     octave_ |-> MIDDLE_C_OCTAVE + CDiv(midi_val - MIDDLE_C_MIDI, NOTES_PER_OCTAVE)
                 - (IF midi_val - MIDDLE_C_MIDI < 0 THEN 1 ELSE 0)]

MIDIInformationWithOctave(midi_val, octave) ==
    [midi_value_ |-> midi_val, octave_ |-> octave]

\* a Note object: its data members
NoteObject(midi, names, regen, simple, complex) ==
    [midi_ |-> midi, names_ |-> names, have_to_regenerate_name |-> regen,
     name_as_string |-> simple, complex_name |-> complex]

check_has_midi(n) == has_value(n.midi_)

check_has_name(n) == ~(~has_value(n.names_) \/ Len(value(n.names_)) = 0)

-----------------------------------------------------------------------------
(* Text helpers: character classes of the regular expressions, std::stoi *)

\* [a|c-zA-Z] of note_name_regex_pattern
LetterChars ==
    {"a", "|", "c", "d", "e", "f", "g", "h", "i", "j", "k", "l", "m", "n", "o",
     "p", "q", "r", "s", "t", "u", "v", "w", "x", "y", "z",
     "A", "B", "C", "D", "E", "F", "G", "H", "I", "J", "K", "L", "M", "N", "O",
     "P", "Q", "R", "S", "T", "U", "V", "W", "X", "Y", "Z"}

DigitSeq == <<"0", "1", "2", "3", "4", "5", "6", "7", "8", "9">>

DigitChars == {DigitSeq[i] : i \in 1 .. 10}

\* [\-|\d] of both patterns
OctaveChars == {"-", "|"} \cup DigitChars

RECURSIVE Repeat(_, _)
Repeat(c, k) == IF k = 0 THEN <<>> ELSE <<c>> \o Repeat(c, k - 1)

\* length of the longest prefix of s made of characters of Cls (a greedy X*)
RECURSIVE PrefixLen(_, _)
PrefixLen(s, Cls) ==
    IF s = <<>> \/ s[1] \notin Cls THEN 0 ELSE 1 + PrefixLen(Tail(s), Cls)

DigitValue(c) == (CHOOSE i \in 1 .. 10 : DigitSeq[i] = c) - 1

RECURSIVE DecimalValue(_, _)
DecimalValue(s, acc) ==
    IF s = <<>> THEN acc ELSE DecimalValue(Tail(s), 10 * acc + DigitValue(s[1]))

stoi_IgnoresSign(s) ==
    LET neg  == s # <<>> /\ s[1] = "-"
        body == IF neg THEN Tail(s) ELSE s
        n    == PrefixLen(body, DigitChars)
        z    == PrefixLen(SubSeq(body, 1, n), {"0"})
        sig  == SubSeq(body, z + 1, n)
        hi   == DecimalValue(SubSeq(sig, 1, 9), 0)
        fits == \/ Len(sig) < 10
                \/ /\ Len(sig) = 10
                   /\ \/ hi < 214748364
                      \/ hi = 214748364 /\ DigitValue(sig[10]) <= (IF neg THEN 8 ELSE 7)
        v    == DecimalValue(sig, 0)
    IN  IF n = 0 THEN [err |-> "STOI_INVALID_ARGUMENT", val |-> 0]
        ELSE IF ~fits THEN [err |-> "STOI_OUT_OF_RANGE", val |-> 0]
        ELSE [err |-> "none", val |-> v]

\* std::stoi: optional sign, then the longest prog of digits; throws
\* std::out_of_range when the number does not fit an int, and
\* std::invalid_argument when no digit can be converted
stoi(s) ==
    LET neg  == s # <<>> /\ s[1] = "-"
        body == IF neg THEN Tail(s) ELSE s
        n    == PrefixLen(body, DigitChars)
        z    == PrefixLen(SubSeq(body, 1, n), {"0"})
        sig  == SubSeq(body, z + 1, n)
        hi   == DecimalValue(SubSeq(sig, 1, 9), 0)
        fits == \/ Len(sig) < 10
                \/ /\ Len(sig) = 10
                   /\ \/ hi < 214748364
                      \/ hi = 214748364 /\ DigitValue(sig[10]) <= (IF neg THEN 8 ELSE 7)
        v    == DecimalValue(sig, 0)
    IN  IF n = 0 THEN [err |-> "STOI_INVALID_ARGUMENT", val |-> 0]
        ELSE IF ~fits THEN [err |-> "STOI_OUT_OF_RANGE", val |-> 0]
        ELSE [err |-> "none", val |-> IF neg THEN -v ELSE v]

\* std::regex_search with note_name_regex: every group is starred, so the
\* pattern matches at position 0 and each group takes its longest prog
note_name_regex_search(name) ==
    LET n1 == PrefixLen(name, LetterChars)
        r1 == SubSeq(name, n1 + 1, Len(name))
        n2 == PrefixLen(r1, {"b"})
        r2 == SubSeq(r1, n2 + 1, Len(r1))
        n3 == PrefixLen(r2, {"#"})
        r3 == SubSeq(r2, n3 + 1, Len(r2))
        n4 == PrefixLen(r3, OctaveChars)
    IN  <<SubSeq(name, 1, n1), SubSeq(r1, 1, n2), SubSeq(r2, 1, n3), SubSeq(r3, 1, n4)>>

\* std::find in note_names followed by std::distance: 0-based index, or
\* note_names.size() when the text is not a note name
note_names_index(text) ==
    IF \E i \in 1 .. Len(note_names) : <<note_names[i]>> = text
    THEN (CHOOSE i \in 1 .. Len(note_names) : <<note_names[i]>> = text) - 1
    ELSE Len(note_names)

-----------------------------------------------------------------------------
(* Note: the three generators *)

generate_naming_information_from_midi_NoNormalisation(midi) ==
    LET offset_from_middle_c == midi - MIDDLE_C_MIDI
        midi_offset_from_c_in_scale == CRem(offset_from_middle_c, NOTES_PER_OCTAVE)
        range == equal_range(midi_offset_from_c_in_scale)
    IN  [i \in 1 .. Len(range) |-> NamingInformation(range[i][2][1], range[i][2][2])]

generate_naming_information_from_midi_FirstSpellingOnly(midi) ==
    LET offset_from_middle_c == midi - MIDDLE_C_MIDI
        midi_offset_from_c_in_scale ==
            CRem(NOTES_PER_OCTAVE + CRem(offset_from_middle_c, NOTES_PER_OCTAVE),
                 NOTES_PER_OCTAVE)
        range == equal_range(midi_offset_from_c_in_scale)
    IN  [i \in 1 .. 1 |-> NamingInformation(range[i][2][1], range[i][2][2])]

generate_naming_information_from_midi(midi) ==
    LET offset_from_middle_c == midi - MIDDLE_C_MIDI
        midi_offset_from_c_in_scale ==
            CRem(NOTES_PER_OCTAVE + CRem(offset_from_middle_c, NOTES_PER_OCTAVE),
                 NOTES_PER_OCTAVE)
        range == equal_range(midi_offset_from_c_in_scale)
    IN  [i \in 1 .. Len(range) |-> NamingInformation(range[i][2][1], range[i][2][2])]

generate_naming_and_midi_from_string(name) ==
    LET matches == note_name_regex_search(name)
        index == note_names_index(matches[1])
        flats == -Len(matches[2])
        accidentals == flats + Len(matches[3])
        octave_found == Len(matches[4]) > 0
        octave == stoi(matches[4])
        midi_offset_from_scale_c == index * 2 - (IF index > 2 THEN 1 ELSE 0)
        midi == MIDDLE_C_MIDI + ((octave.val - MIDDLE_C_OCTAVE) * NOTES_PER_OCTAVE)
                + midi_offset_from_scale_c + accidentals
        Throw(e) == [err |-> e, naming |-> nullopt, midi |-> nullopt]
    IN  IF index >= Len(note_names) THEN Throw("INVALID_NOTE_NAME_FOUND")
        ELSE IF Len(matches[3]) > 0 /\ flats < 0 THEN Throw("BOTH_ACCIDENTALS_FOUND")
        ELSE IF octave_found /\ octave.err # "none" THEN Throw(octave.err)
        ELSE IF NamingInformationThrows(index) THEN Throw("BAD_SCALE_DEGREE_INDEX")
        ELSE [err |-> "none",
              naming |-> Some(NamingInformation(index, accidentals)),
              midi |-> IF octave_found
                       THEN Some(MIDIInformationWithOctave(midi, octave.val))
                       ELSE nullopt]

\* lines 183-189: the MIDIInformation of the result, scale_degree 0-based
midi_from_root_and_scale_degree_NoOctaves(scale_root, scale_degree, accidentals) ==
    IF has_value(scale_root.midi_)
    THEN Some(MIDIInformation(value(scale_root.midi_).midi_value_
                              + scale_degree_to_midi_diff[scale_degree % Len(note_names)]
                              + accidentals))
    ELSE nullopt

midi_from_root_and_scale_degree_NoAccidental(scale_root, scale_degree, accidentals) ==
    LET scale_degree_midi_diff ==
            scale_degree_to_midi_diff[scale_degree % Len(note_names)]
            + NOTES_PER_OCTAVE * (scale_degree \div Len(note_names))
    IN  IF has_value(scale_root.midi_)
        THEN Some(MIDIInformation(value(scale_root.midi_).midi_value_
                                  + scale_degree_midi_diff))
        ELSE nullopt

midi_from_root_and_scale_degree(scale_root, scale_degree, accidentals) ==
    LET scale_degree_midi_diff ==
            scale_degree_to_midi_diff[scale_degree % Len(note_names)]
            + NOTES_PER_OCTAVE * (scale_degree \div Len(note_names))
    IN  IF has_value(scale_root.midi_)
        THEN Some(MIDIInformation(value(scale_root.midi_).midi_value_
                                  + scale_degree_midi_diff + accidentals))
        ELSE nullopt

\* lines 191-212: the NamingInformation of the result, scale_degree 0-based
naming_from_root_and_scale_degree_Spelled(scale_root, scale_degree, accidentals, new_base_degree) ==
    LET number_of_note_names == Len(note_names)
        root_name == value(scale_root.names_)[1]
        root_base_degree == root_name.base_degree_
        root_midi_offset_from_c ==
            scale_degree_to_midi_diff[root_base_degree] + root_name.accidentals_
        scale_degree_without_accidentals_midi_offset_from_c ==
            IF scale_degree_to_midi_diff[new_base_degree] < root_midi_offset_from_c
            THEN scale_degree_to_midi_diff[new_base_degree] + NOTES_PER_OCTAVE
            ELSE scale_degree_to_midi_diff[new_base_degree]
        expected_midi_diff_from_root ==
            scale_degree_to_midi_diff[scale_degree % number_of_note_names] + accidentals
        unaccidented_midi_diff_from_root ==
            scale_degree_without_accidentals_midi_offset_from_c - root_midi_offset_from_c
        needed_accidentals ==
            expected_midi_diff_from_root - unaccidented_midi_diff_from_root
    IN  Some(NamingInformation(new_base_degree, needed_accidentals))

naming_from_root_and_scale_degree_LetterNotRebased(scale_root, scale_degree, accidentals) ==
    IF has_value(scale_root.names_) /\ Len(value(scale_root.names_)) = 1
    THEN naming_from_root_and_scale_degree_Spelled(
             scale_root, scale_degree, accidentals,
             (value(scale_root.names_)[1].base_degree_ + scale_degree + 1)
                 % Len(note_names))
    ELSE nullopt

naming_from_root_and_scale_degree(scale_root, scale_degree, accidentals) ==
    IF has_value(scale_root.names_) /\ Len(value(scale_root.names_)) = 1
    THEN naming_from_root_and_scale_degree_Spelled(
             scale_root, scale_degree, accidentals,
             (value(scale_root.names_)[1].base_degree_ + scale_degree)
                 % Len(note_names))
    ELSE nullopt

generate_naming_and_midi_from_root_and_scale_degree_ThrowsOnPitchedRoot(scale_root, scale_degree, accidentals) ==
    LET Throw(e) == [err |-> e, naming |-> nullopt, midi |-> nullopt]
    IN  IF scale_degree = 0 THEN Throw("INDEX_BASE_ERROR")
        ELSE IF has_value(scale_root.names_) /\ Len(value(scale_root.names_)) # 1
             THEN Throw("CREATION_NOT_BOTH_INFORMATION")
        ELSE [err |-> "none",
              naming |-> naming_from_root_and_scale_degree(
                             scale_root, scale_degree - 1, accidentals),
              midi |-> midi_from_root_and_scale_degree(
                           scale_root, scale_degree - 1, accidentals)]

generate_naming_and_midi_from_root_and_scale_degree_NoZeroCheck(scale_root, scale_degree, accidentals) ==
    LET Throw(e) == [err |-> e, naming |-> nullopt, midi |-> nullopt]
    IN  IF ~has_value(scale_root.midi_) /\ has_value(scale_root.names_)
           /\ Len(value(scale_root.names_)) # 1
        THEN Throw("CREATION_NOT_BOTH_INFORMATION")
        ELSE [err |-> "none",
              naming |-> naming_from_root_and_scale_degree(
                             scale_root, scale_degree - 1, accidentals),
              midi |-> midi_from_root_and_scale_degree(
                           scale_root, scale_degree - 1, accidentals)]

generate_naming_and_midi_from_root_and_scale_degree(scale_root, scale_degree, accidentals) ==
    LET Throw(e) == [err |-> e, naming |-> nullopt, midi |-> nullopt]
    IN  IF scale_degree = 0 THEN Throw("INDEX_BASE_ERROR")
        ELSE IF ~has_value(scale_root.midi_) /\ has_value(scale_root.names_)
                /\ Len(value(scale_root.names_)) # 1
             THEN Throw("CREATION_NOT_BOTH_INFORMATION")
        ELSE [err |-> "none",
              naming |-> naming_from_root_and_scale_degree(
                             scale_root, scale_degree - 1, accidentals),
              midi |-> midi_from_root_and_scale_degree(
                           scale_root, scale_degree - 1, accidentals)]

-----------------------------------------------------------------------------
(* Note: constructors, set_note and get_midi.  A constructor returns       *)
(* [err, note]: note is nullopt when the constructor threw.                *)

\* Note::Note()
NoteDefault ==
    NoteObject(Some(MIDIInformation(MIDDLE_C_MIDI)),
               Some(<<NamingInformation(0, 0)>>), TRUE, <<>>, <<>>)

\* Note::Note(midi_value, bool)
NoteFromMidi(midi, generate_names) ==
    NoteObject(Some(MIDIInformation(midi)),
               IF generate_names
               THEN Some(generate_naming_information_from_midi(midi))
               ELSE nullopt,
               TRUE, <<>>, <<>>)

\* Note::set_note(midi_value, bool)
SetNoteMidi(n, midi, generate_names) ==
    [n EXCEPT !.midi_ = Some(MIDIInformation(midi)),
              !.names_ = IF generate_names
                         THEN Some(generate_naming_information_from_midi(midi))
                         ELSE nullopt,
              !.have_to_regenerate_name = TRUE]

\* Note::Note(const std::string&)
NoteFromString(name) ==
    LET g == generate_naming_and_midi_from_string(name)
    IN  IF g.err # "none" THEN [err |-> g.err, note |-> nullopt]
        ELSE [err |-> "none",
              note |-> Some(NoteObject(g.midi, Some(<<value(g.naming)>>),
                                       TRUE, <<>>, <<>>))]

\* Note::set_note(const std::string&)
SetNoteString(n, name) ==
    LET g == generate_naming_and_midi_from_string(name)
    IN  IF g.err # "none" THEN [err |-> g.err, note |-> Some(n)]
        ELSE [err |-> "none",
              note |-> Some([n EXCEPT !.names_ = Some(<<value(g.naming)>>),
                                      !.midi_ = g.midi,
                                      !.have_to_regenerate_name = TRUE])]

NoteFromRoot_DropsMidiWhenNamed(scale_root, scale_degree, accidentals) ==
    LET g == generate_naming_and_midi_from_root_and_scale_degree(
                 scale_root, scale_degree, accidentals)
    IN  IF g.err # "none" THEN [err |-> g.err, note |-> nullopt]
        ELSE [err |-> "none",
              note |-> Some(NoteObject(IF has_value(g.naming) THEN nullopt ELSE g.midi,
                                       IF has_value(g.naming)
                                       THEN Some(<<value(g.naming)>>)
                                       ELSE nullopt,
                                       TRUE, <<>>, <<>>))]

\* Note::Note(const Note&, scale_degree_value, accidentals_value)
NoteFromRoot(scale_root, scale_degree, accidentals) ==
    LET g == generate_naming_and_midi_from_root_and_scale_degree(
                 scale_root, scale_degree, accidentals)
    IN  IF g.err # "none" THEN [err |-> g.err, note |-> nullopt]
        ELSE [err |-> "none",
              note |-> Some(NoteObject(g.midi,
                                       IF has_value(g.naming)
                                       THEN Some(<<value(g.naming)>>)
                                       ELSE nullopt,
                                       TRUE, <<>>, <<>>))]

SetNoteRoot_KeepsNames(n, scale_root, scale_degree, accidentals) ==
    LET g == generate_naming_and_midi_from_root_and_scale_degree(
                 scale_root, scale_degree, accidentals)
    IN  IF g.err # "none" THEN [err |-> g.err, note |-> Some(n)]
        ELSE [err |-> "none",
              note |-> Some([n EXCEPT !.midi_ = g.midi,
                                      !.have_to_regenerate_name = TRUE])]

\* Note::set_note(const Note&, scale_degree_value, accidentals_value)
SetNoteRoot(n, scale_root, scale_degree, accidentals) ==
    LET g == generate_naming_and_midi_from_root_and_scale_degree(
                 scale_root, scale_degree, accidentals)
    IN  IF g.err # "none" THEN [err |-> g.err, note |-> Some(n)]
        ELSE [err |-> "none",
              note |-> Some([n EXCEPT !.midi_ = g.midi,
                                      !.names_ = IF has_value(g.naming)
                                                 THEN Some(<<value(g.naming)>>)
                                                 ELSE @,
                                      !.have_to_regenerate_name = TRUE])]

\* operator<< of a non-negative integer: its decimal numeral
RECURSIVE IntToText(_)
IntToText(n) ==
    IF n < 10 THEN <<DigitSeq[n + 1]>>
    ELSE IntToText(n \div 10) \o <<DigitSeq[(n % 10) + 1]>>

\* operator<< of an int
int_text(i) == IF i < 0 THEN <<"-">> \o IntToText(-i) ELSE IntToText(i)

\* the loop of Note::generate_name_as_string, from naming i on
RECURSIVE generate_name_as_string_from(_, _)
generate_name_as_string_from(names, i) ==
    IF i > Len(names) THEN <<>>
    ELSE LET naming_info == names[i]
             accidental == IF naming_info.accidentals_ < 0
                           THEN downward_accidental ELSE upward_accidental
             amount_of_accidentals == IF naming_info.accidentals_ < 0
                                      THEN naming_info.accidentals_ * (-1)
                                      ELSE naming_info.accidentals_
         IN  (IF i > 1 THEN <<NOTE_PRINT_SEPERATOR>> ELSE <<>>)
             \o <<note_names[naming_info.base_degree_ + 1]>>
             \o Repeat(accidental, amount_of_accidentals)
             \o generate_name_as_string_from(names, i + 1)

generate_name_as_string_FirstOnly(n) ==
    generate_name_as_string_from(<<value(n.names_)[1]>>, 1)

generate_name_as_string(n) == generate_name_as_string_from(value(n.names_), 1)

get_name_KeepsCache(n) ==
    IF ~check_has_name(n)
    THEN [err |-> "NO_NAME_INFORMATION", val |-> nullopt, note |-> n]
    ELSE LET refreshed == IF n.name_as_string = <<>>
                          THEN [n EXCEPT !.name_as_string = generate_name_as_string(n)]
                          ELSE n
         IN  [err |-> "none", val |-> Some(refreshed.name_as_string), note |-> refreshed]

\* std::string& Note::get_name(): the cached text is refreshed in the object
get_name(n) ==
    IF ~check_has_name(n)
    THEN [err |-> "NO_NAME_INFORMATION", val |-> nullopt, note |-> n]
    ELSE LET refreshed == IF n.have_to_regenerate_name
                          THEN [n EXCEPT !.name_as_string = generate_name_as_string(n)]
                          ELSE n
         IN  [err |-> "none", val |-> Some(refreshed.name_as_string), note |-> refreshed]

\* std::string Note::get_name() const
get_name_const(n) ==
    IF ~check_has_name(n) THEN [err |-> "NO_NAME_INFORMATION", val |-> nullopt]
    ELSE IF ~n.have_to_regenerate_name THEN [err |-> "none", val |-> Some(n.name_as_string)]
    ELSE [err |-> "none", val |-> Some(generate_name_as_string(n))]

\* the loop of Note::generate_complex_name_as_string, from naming i on
RECURSIVE generate_complex_name_as_string_from(_, _)
generate_complex_name_as_string_from(n, i) ==
    IF i > Len(value(n.names_)) THEN <<>>
    ELSE (IF i > 1 THEN <<NOTE_PRINT_SEPERATOR>> ELSE <<>>)
         \o value(get_name_const(n).val)
         \o int_text(value(n.midi_).octave_)
         \o <<" ", "(">> \o int_text(value(n.midi_).midi_value_) \o <<")">>
         \o generate_complex_name_as_string_from(n, i + 1)

generate_complex_name_as_string(n) == generate_complex_name_as_string_from(n, 1)

get_name_and_midi_string_NameMessage(n) ==
    IF ~check_has_midi(n)
    THEN [err |-> "NOT_BOTH_INFORMATION", val |-> nullopt, note |-> n]
    ELSE IF ~check_has_name(n)
    THEN [err |-> "NO_NAME_INFORMATION", val |-> nullopt, note |-> n]
    ELSE LET refreshed == IF n.have_to_regenerate_name
                          THEN [n EXCEPT !.complex_name = generate_complex_name_as_string(n)]
                          ELSE n
         IN  [err |-> "none", val |-> Some(refreshed.complex_name), note |-> refreshed]

\* std::string& Note::get_name_and_midi_string()
get_name_and_midi_string(n) ==
    IF ~check_has_midi(n) \/ ~check_has_name(n)
    THEN [err |-> "NOT_BOTH_INFORMATION", val |-> nullopt, note |-> n]
    ELSE LET refreshed == IF n.have_to_regenerate_name
                          THEN [n EXCEPT !.complex_name = generate_complex_name_as_string(n)]
                          ELSE n
         IN  [err |-> "none", val |-> Some(refreshed.complex_name), note |-> refreshed]

get_midi_ReturnsOffset(n) ==
    IF has_value(n.midi_)
    THEN [err |-> "none", val |-> Some(value(n.midi_).midi_value_ - MIDDLE_C_MIDI)]
    ELSE [err |-> "NO_MIDI_INFORMATION", val |-> nullopt]

\* Note::get_midi
get_midi(n) ==
    IF has_value(n.midi_)
    THEN [err |-> "none", val |-> Some(value(n.midi_).midi_value_)]
    ELSE [err |-> "NO_MIDI_INFORMATION", val |-> nullopt]

-----------------------------------------------------------------------------
(* RealisedScale *)

RECURSIVE realise_scale_from_RespellsTonic(_, _, _, _)
realise_scale_from_RespellsTonic(scale_root, sc, i, result) ==
    IF i > Len(sc) THEN [err |-> "none", notes |-> Some(result)]
    ELSE LET made == NoteFromRoot(scale_root, sc[i][1], sc[i][2])
         IN  IF made.err # "none" THEN [err |-> made.err, notes |-> nullopt]
             ELSE realise_scale_from_RespellsTonic(scale_root, sc, i + 1,
                                                   Append(result, value(made.note)))

RECURSIVE realise_scale_from_DropsAccidental(_, _, _, _)
realise_scale_from_DropsAccidental(scale_root, sc, i, result) ==
    IF i > Len(sc) THEN [err |-> "none", notes |-> Some(result)]
    ELSE IF sc[i][1] = 1
         THEN realise_scale_from_DropsAccidental(scale_root, sc, i + 1,
                                                 Append(result, scale_root))
         ELSE LET made == NoteFromRoot(scale_root, sc[i][1], 0)
              IN  IF made.err # "none" THEN [err |-> made.err, notes |-> nullopt]
                  ELSE realise_scale_from_DropsAccidental(scale_root, sc, i + 1,
                                                          Append(result, value(made.note)))

\* RealisedScale::realise_scale: the loop over the scale, from entry i on,
\* with the notes emplaced so far; a throwing Note constructor ends it
RECURSIVE realise_scale_from(_, _, _, _)
realise_scale_from(scale_root, sc, i, result) ==
    IF i > Len(sc) THEN [err |-> "none", notes |-> Some(result)]
    ELSE IF sc[i][1] = 1
         THEN realise_scale_from(scale_root, sc, i + 1, Append(result, scale_root))
         ELSE LET made == NoteFromRoot(scale_root, sc[i][1], sc[i][2])
              IN  IF made.err # "none" THEN [err |-> made.err, notes |-> nullopt]
                  ELSE realise_scale_from(scale_root, sc, i + 1,
                                          Append(result, value(made.note)))

realise_scale(scale_root, sc) == realise_scale_from(scale_root, sc, 1, <<>>)

-----------------------------------------------------------------------------
(* Scale: parsing and rendering the delimited text *)

\* a scale_degree_value (size_t, 64 bits) is held as the representative of
\* its residue modulo 2^64 in -2^63 .. 2^63 - 1, so a negative int cast to
\* size_t keeps its numeral here and stands for 2^64 plus that numeral
to_scale_degree_value(v) == v

\* operator<< of a size_t: 2^64 = 18446744073709551616, so for a wrapped
\* value 2^64 + v with -51616 <= v < 0 only the last five digits change
size_t_text(v) ==
    IF v >= 0 THEN IntToText(v)
    ELSE LET low == IntToText(51616 + v)
         IN  <<"1", "8", "4", "4", "6", "7", "4", "4", "0", "7", "3", "7", "0", "9", "5">>
             \o Repeat("0", 5 - Len(low)) \o low

\* std::regex_search with scale_degree_regex: matches at position 0, each
\* starred group takes its longest prog
scale_degree_regex_search(input) ==
    LET n1 == PrefixLen(input, {"b"})
        r1 == SubSeq(input, n1 + 1, Len(input))
        n2 == PrefixLen(r1, {"#"})
        r2 == SubSeq(r1, n2 + 1, Len(r1))
        n3 == PrefixLen(r2, OctaveChars)
    IN  <<SubSeq(input, 1, n1), SubSeq(r1, 1, n2), SubSeq(r2, 1, n3)>>

\* Scale::parse_scale_degree_string
parse_scale_degree_string(input) ==
    LET matches == scale_degree_regex_search(input)
        flats == -Len(matches[1])
        accidentals == IF Len(matches[2]) > 0 THEN Len(matches[2]) ELSE flats
        sd == stoi(matches[3])
        Throw(e) == [err |-> e, sd |-> <<0, 0>>]
    IN  IF Len(matches[2]) > 0 /\ flats < 0 THEN Throw("BOTH_ACCIDENTALS_FOUND")
        ELSE IF Len(matches[3]) = 0 THEN Throw("NO_SCALE_DEGREE")
        ELSE IF sd.err # "none" THEN Throw(sd.err)
        ELSE [err |-> "none", sd |-> <<to_scale_degree_value(sd.val), accidentals>>]

\* std::getline(stream, str, SCALE_DEGREE_SEPERATOR) until it fails: the
\* runs between separators; nothing is read after a final separator
RECURSIVE getline_tokens(_)
getline_tokens(text) ==
    IF text = <<>> THEN <<>>
    ELSE LET n == PrefixLen(text, {text[i] : i \in 1 .. Len(text)}
                                  \ {SCALE_DEGREE_SEPERATOR})
         IN  <<SubSeq(text, 1, n)>> \o getline_tokens(SubSeq(text, n + 2, Len(text)))

\* the loop of operator>>: entries are emplaced until a token throws
RECURSIVE parse_tokens_from(_, _, _)
parse_tokens_from(tokens, i, scale_degrees) ==
    IF i > Len(tokens) THEN [err |-> "none", scale_degrees |-> scale_degrees]
    ELSE LET parsed == parse_scale_degree_string(tokens[i])
         IN  IF parsed.err # "none"
             THEN [err |-> parsed.err, scale_degrees |-> scale_degrees]
             ELSE parse_tokens_from(tokens, i + 1, Append(scale_degrees, parsed.sd))

\* operator>>(std::istream&, Scale&): clear, then the loop
scale_from_stream(text) == parse_tokens_from(getline_tokens(text), 1, <<>>)

\* for (acc_i = 0; acc_i > sd.second; --acc_i) stream << downward_accidental
RECURSIVE downward_loop(_, _)
downward_loop(acc_i, second) ==
    IF acc_i > second
    THEN <<downward_accidental>> \o downward_loop(acc_i - 1, second)
    ELSE <<>>

\* for (acc_i = 0; acc_i > sd.second; ++acc_i) stream << upward_accidental
RECURSIVE upward_loop(_, _)
upward_loop(acc_i, second) ==
    IF acc_i > second
    THEN <<upward_accidental>> \o upward_loop(acc_i + 1, second)
    ELSE <<>>

\* operator<<(std::ostream&, const Scale&), from entry i on
RECURSIVE scale_to_stream_from(_, _)
scale_to_stream_from(scale_degrees, i) ==
    IF i > Len(scale_degrees) THEN <<>>
    ELSE LET sd == scale_degrees[i]
         IN  (IF i > 1 THEN <<SCALE_DEGREE_SEPERATOR, " ">> ELSE <<>>)
             \o (IF sd[2] < 0 THEN downward_loop(0, sd[2])
                 ELSE IF sd[2] > 0 THEN upward_loop(0, sd[2])
                 ELSE <<>>)
             \o size_t_text(sd[1])
             \o scale_to_stream_from(scale_degrees, i + 1)

scale_to_stream(scale_degrees) == scale_to_stream_from(scale_degrees, 1)

-----------------------------------------------------------------------------
(* The quiz session: ScaleManager and ApplicationManager *)

NUMBER_OF_CHOICES == 4
EASY == 0
MEDIUM == 1
HARD == 2

\* ScaleManager::ScaleEntry, without the Scale it carries
ScaleEntry(name, difficulty) == [name |-> name, difficulty |-> difficulty]

\* ScaleManager::_scale_names: the names in file order
scale_names(entries) == [i \in 1 .. Len(entries) |-> entries[i].name]

\* _difficulty_map.equal_range(d): the entries of difficulty d, in the
\* order build_maps emplaced them
difficulty_map_equal_range(entries, d) ==
    SelectSeq(entries, LAMBDA e : e.difficulty = d)

\* _difficulty_map.count(d)
difficulty_map_count(entries, d) == Len(difficulty_map_equal_range(entries, d))

\* the elements of seq at the positions in S, in their order
RECURSIVE elements_at(_, _, _)
elements_at(seq, S, i) ==
    IF i > Len(seq) THEN <<>>
    ELSE (IF i \in S THEN <<seq[i]>> ELSE <<>>) \o elements_at(seq, S, i + 1)

\* std::sample(first, last, out, n, g): min(n, size) elements, order kept
sample_outcomes(seq, n) ==
    LET k == IF n < Len(seq) THEN n ELSE Len(seq)
    IN  {elements_at(seq, S, 1) : S \in {T \in SUBSET (1 .. Len(seq)) : Cardinality(T) = k}}

\* std::ranges::shuffle: any order of the same elements
shuffle_outcomes(seq) ==
    {[i \in 1 .. Len(seq) |-> seq[f[i]]] :
        f \in {g \in [1 .. Len(seq) -> 1 .. Len(seq)] :
                 \A a, b \in 1 .. Len(seq) : a # b => g[a] # g[b]}}

\* std::find_if(begin, end, comp) - begin: 0-based place of the first
\* element equal to name, the size when there is none
RECURSIVE find_index(_, _, _)
find_index(seq, name, i) ==
    IF i > Len(seq) THEN Len(seq)
    ELSE IF seq[i] = name THEN i - 1
    ELSE find_index(seq, name, i + 1)

\* ApplicationManager::Question, without the RealisedScale of its entry
Question(rs, options, correct_index) ==
    [_rs |-> rs, _options |-> options, _correct_index |-> correct_index]

NotRunning ==
    [pc |-> "main", number_of_questions |-> 0, difficulty |-> 0, i |-> 0,
     sampled |-> FALSE, sampled_difficulty |-> 0, sampled_difficulties |-> <<>>,
     sampled_scales |-> <<>>, error |-> "none"]

-----------------------------------------------------------------------------
(* Inputs *)

MidiInputs == MinMidi .. MaxMidi

DegreeInputs == 0 .. MaxDegree

AccInputs == (-MaxAcc) .. MaxAcc

\* accidental runs of a name: flats, sharps, and the two mixed orders
AccTexts ==
    {Repeat(downward_accidental, k) : k \in 0 .. MaxRootAcc}
    \cup {Repeat(upward_accidental, k) : k \in 1 .. MaxRootAcc}
    \cup {<<"b", "#">>, <<"#", "b">>}

OctaveTexts == {<<>>, <<"4">>, <<"3">>, <<"-", "1">>, <<"-">>}

LetterTexts == {<<note_names[i]>> : i \in 1 .. Len(note_names)} \cup {<<"H">>, <<>>}

NameInputs == {l \o a \o o : l \in LetterTexts, a \in AccTexts, o \in OctaveTexts}

\* entries of the Scales that are realised
ScaleEntries == {<<d, x>> : d \in {0, 1, 3, 9}, x \in {-1, 0, 1}}

ScaleInputs == UNION {[1 .. n -> ScaleEntries] : n \in 0 .. MaxScaleLen}

\* tokens of the scale texts: grammar tokens and malformed ones
ScaleTokenInputs ==
    {<<"1">>, <<"2">>, <<"b", "3">>, <<"b", "b", "7">>, <<"#", "4">>,
     <<"#", "#", "5">>, <<"1", "0">>, <<"b", "#", "3">>, <<"#", "b", "3">>,
     <<"b">>, <<"#">>, <<"-", "3">>, <<"0">>, <<"-">>}

ScaleTokenLists == UNION {[1 .. n -> ScaleTokenInputs] : n \in 1 .. MaxTokens}

\* the text of a token list: the tokens joined by the separator, no spaces
RECURSIVE JoinTokens(_)
JoinTokens(tokens) ==
    IF Len(tokens) = 0 THEN <<>>
    ELSE IF Len(tokens) = 1 THEN tokens[1]
    ELSE tokens[1] \o <<SCALE_DEGREE_SEPERATOR>> \o JoinTokens(Tail(tokens))

\* the names of the loaded scales, by place in the file
ScaleNameTable == <<"Major", "Dorian", "Lydian", "Blues", "Locrian", "Altered">>

\* a file of k scales: all of one difficulty (p in EASY .. HARD), or the
\* three difficulties in turn (p = HARD + 1)
LoadedPattern(p, k) ==
    [i \in 1 .. k |-> ScaleEntry(ScaleNameTable[i],
                                 IF p > HARD THEN (i - 1) % (HARD + 1) ELSE p)]

\* the same file with the name of the first scale repeated on the second
LoadedWithRepeatedName(p, k) ==
    [LoadedPattern(p, k) EXCEPT ![2].name = ScaleNameTable[1]]

LoadedSets ==
    {LoadedPattern(p, k) : p \in EASY .. HARD + 1, k \in 0 .. MaxEntries}
    \cup {LoadedWithRepeatedName(HARD + 1, k) : k \in 2 .. MaxEntries}

\* the -d argument, before main clamps it
DifficultyArgs == EASY .. HARD + 1

\* what the user types: 0 also stands for text that is not a number
AnswerInputs == 0 .. NUMBER_OF_CHOICES + 1

\* arguments of the set_note calls on a Note that is already in use
ReassignMidiInputs == {61, 62}

ReassignNameInputs == {<<"E", "b", "4">>, <<"F", "#">>, <<"H">>}

ReassignRootInputs ==
    {NoteDefault, NoteFromMidi(62, FALSE), NoteFromMidi(61, TRUE),
     value(NoteFromString(<<"E">>).note)}

ReassignDegreeInputs == {<<2, 0>>, <<3, -1>>}

NoCall == [op |-> "none", midi |-> 0, generate_names |-> FALSE, name |-> <<>>,
           scale_degree |-> 0, accidentals |-> 0, tokens |-> <<>>, text |-> <<>>,
           scale_root |-> nullopt]

-----------------------------------------------------------------------------
(* The calling program: two default-constructed Notes, then one call that  *)
(* builds or re-assigns the root, then calls that use the root.            *)

Init ==
    /\ pc = "start"
    /\ root = Some(NoteDefault)
    /\ rootCall = NoCall
    /\ note = Some(NoteDefault)
    /\ call = NoCall
    /\ scale = <<>>
    /\ notes = nullopt
    /\ err = "none"
    /\ ret = nullopt
    /\ reparsed = <<>>
    /\ sm = [_entries |-> <<>>]
    /\ am = [_session |-> <<>>, _question_index |-> 0,
             _correct_questions |-> <<>>, _correct |-> 0]
    /\ prog = NotRunning

\* root = Note(midi, generate_names)
ConstructRootFromMidi ==
    /\ pc = "start"
    /\ \E midi \in MidiInputs, generate_names \in BOOLEAN :
          /\ root' = Some(NoteFromMidi(midi, generate_names))
          /\ rootCall' = [NoCall EXCEPT !.op = "Note(midi)", !.midi = midi,
                                        !.generate_names = generate_names]
    /\ err' = "none"
    /\ pc' = "root"
    /\ UNCHANGED <<note, call, scale, notes, ret, reparsed, sm, am, prog>>

\* root.set_note(midi, generate_names)
AssignRootFromMidi ==
    /\ pc = "start"
    /\ \E midi \in MidiInputs, generate_names \in BOOLEAN :
          /\ root' = Some(SetNoteMidi(value(root), midi, generate_names))
          /\ rootCall' = [NoCall EXCEPT !.op = "set_note(midi)", !.midi = midi,
                                        !.generate_names = generate_names]
    /\ err' = "none"
    /\ pc' = "root"
    /\ UNCHANGED <<note, call, scale, notes, ret, reparsed, sm, am, prog>>

\* root = Note(name); a throwing constructor leaves no root
ConstructRootFromString ==
    /\ pc = "start"
    /\ \E name \in NameInputs :
          \E made \in {NoteFromString(name)} :
              /\ root' = made.note
              /\ err' = made.err
              /\ pc' = IF made.err = "none" THEN "root" ELSE "failed"
              /\ rootCall' = [NoCall EXCEPT !.op = "Note(name)", !.name = name]
    /\ UNCHANGED <<note, call, scale, notes, ret, reparsed, sm, am, prog>>

\* root.set_note(name); a throwing set_note leaves root as it was
AssignRootFromString ==
    /\ pc = "start"
    /\ \E name \in NameInputs :
          \E made \in {SetNoteString(value(root), name)} :
              /\ root' = made.note
              /\ err' = made.err
              /\ pc' = IF made.err = "none" THEN "root" ELSE "failed"
              /\ rootCall' = [NoCall EXCEPT !.op = "set_note(name)", !.name = name]
    /\ UNCHANGED <<note, call, scale, notes, ret, reparsed, sm, am, prog>>

\* note = Note(root, scale_degree, accidentals)
ConstructFromRoot ==
    /\ pc = "root"
    /\ \E scale_degree \in DegreeInputs, accidentals \in AccInputs :
          \E made \in {NoteFromRoot(value(root), scale_degree, accidentals)} :
              /\ note' = made.note
              /\ err' = made.err
              /\ call' = [NoCall EXCEPT !.op = "Note(root)",
                                        !.scale_degree = scale_degree,
                                        !.accidentals = accidentals]
    /\ pc' = "done"
    /\ UNCHANGED <<root, rootCall, scale, notes, ret, reparsed, sm, am, prog>>

\* note.set_note(root, scale_degree, accidentals)
AssignFromRoot ==
    /\ pc = "root"
    /\ \E scale_degree \in DegreeInputs, accidentals \in AccInputs :
          \E made \in {SetNoteRoot(value(note), value(root), scale_degree, accidentals)} :
              /\ note' = made.note
              /\ err' = made.err
              /\ call' = [NoCall EXCEPT !.op = "set_note(root)",
                                        !.scale_degree = scale_degree,
                                        !.accidentals = accidentals]
    /\ pc' = "done"
    /\ UNCHANGED <<root, rootCall, scale, notes, ret, reparsed, sm, am, prog>>

\* RealisedScale(root, scale)
Realise ==
    /\ pc = "root"
    /\ \E sc \in ScaleInputs :
          \E made \in {realise_scale(value(root), sc)} :
              /\ scale' = sc
              /\ notes' = made.notes
              /\ err' = made.err
    /\ call' = [NoCall EXCEPT !.op = "RealisedScale(root,scale)"]
    /\ pc' = "done"
    /\ UNCHANGED <<root, rootCall, note, ret, reparsed, sm, am, prog>>

\* root.get_midi()
GetMidi ==
    /\ pc = "root"
    /\ LET got == get_midi(value(root))
       IN  /\ ret' = got.val
           /\ err' = got.err
           /\ pc' = IF got.err = "none" THEN "read" ELSE "done"
    /\ call' = [NoCall EXCEPT !.op = "get_midi()"]
    /\ UNCHANGED <<root, rootCall, note, scale, notes, reparsed, sm, am, prog>>

\* root.get_name()
GetName ==
    /\ pc \in {"root", "reassigned"}
    /\ LET got == get_name(value(root))
       IN  /\ ret' = got.val
           /\ err' = got.err
           /\ root' = Some(got.note)
    /\ call' = [NoCall EXCEPT !.op = "get_name()"]
    /\ pc' = IF pc = "root" THEN "named" ELSE "renamed"
    /\ UNCHANGED <<rootCall, note, scale, notes, reparsed, sm, am, prog>>

\* root.get_name_and_midi_string()
GetNameAndMidiString ==
    /\ pc \in {"root", "reassigned"}
    /\ LET got == get_name_and_midi_string(value(root))
       IN  /\ ret' = got.val
           /\ err' = got.err
           /\ root' = Some(got.note)
    /\ call' = [NoCall EXCEPT !.op = "get_name_and_midi_string()"]
    /\ pc' = IF pc = "root" THEN "named" ELSE "renamed"
    /\ UNCHANGED <<rootCall, note, scale, notes, reparsed, sm, am, prog>>

\* root.set_note(midi, generate_names) on a root in use
ReassignFromMidi ==
    /\ pc \in {"root", "named"}
    /\ \E midi \in ReassignMidiInputs, generate_names \in BOOLEAN :
          /\ root' = Some(SetNoteMidi(value(root), midi, generate_names))
          /\ rootCall' = [NoCall EXCEPT !.op = "set_note(midi)", !.midi = midi,
                                        !.generate_names = generate_names]
    /\ call' = [NoCall EXCEPT !.op = "root.set_note"]
    /\ err' = "none"
    /\ pc' = "reassigned"
    /\ UNCHANGED <<note, scale, notes, ret, reparsed, sm, am, prog>>

\* root.set_note(name) on a root in use; a throw leaves the root as it was
ReassignFromString ==
    /\ pc \in {"root", "named"}
    /\ \E name \in ReassignNameInputs :
          \E made \in {SetNoteString(value(root), name)} :
              /\ root' = made.note
              /\ err' = made.err
              /\ rootCall' = IF made.err = "none"
                             THEN [NoCall EXCEPT !.op = "set_note(name)", !.name = name]
                             ELSE rootCall
    /\ call' = [NoCall EXCEPT !.op = "root.set_note"]
    /\ pc' = "reassigned"
    /\ UNCHANGED <<note, scale, notes, ret, reparsed, sm, am, prog>>

\* root.set_note(scale_root, scale_degree, accidentals) on a root in use
ReassignFromRoot ==
    /\ pc \in {"root", "named"}
    /\ \E scale_root \in ReassignRootInputs, da \in ReassignDegreeInputs :
          \E made \in {SetNoteRoot(value(root), scale_root, da[1], da[2])} :
              /\ root' = made.note
              /\ err' = made.err
              /\ rootCall' = IF made.err = "none"
                             THEN [NoCall EXCEPT !.op = "set_note(root)",
                                                 !.scale_root = Some(scale_root),
                                                 !.scale_degree = da[1],
                                                 !.accidentals = da[2]]
                             ELSE rootCall
    /\ call' = [NoCall EXCEPT !.op = "root.set_note"]
    /\ pc' = "reassigned"
    /\ UNCHANGED <<note, scale, notes, ret, reparsed, sm, am, prog>>

\* note = Note(p, true) with the pitch p just read from the root
ConstructFromPitchRead ==
    /\ pc = "read"
    /\ note' = Some(NoteFromMidi(value(ret), TRUE))
    /\ call' = [NoCall EXCEPT !.op = "Note(midi)", !.midi = value(ret),
                              !.generate_names = TRUE]
    /\ err' = "none"
    /\ pc' = "done"
    /\ UNCHANGED <<root, rootCall, scale, notes, ret, reparsed, sm, am, prog>>

\* stream >> scale, with the text of a token list in the stream
ParseScale ==
    /\ pc = "start"
    /\ \E tokens \in ScaleTokenLists :
          LET text == JoinTokens(tokens)
              parsed == scale_from_stream(text)
          IN  /\ scale' = parsed.scale_degrees
              /\ err' = parsed.err
              /\ pc' = IF parsed.err = "none" THEN "scale" ELSE "failed"
              /\ call' = [NoCall EXCEPT !.op = "operator>>", !.tokens = tokens,
                                        !.text = text]
    /\ UNCHANGED <<root, rootCall, note, notes, ret, reparsed, sm, am, prog>>

\* stream << scale
RenderScale ==
    /\ pc = "scale"
    /\ ret' = Some(scale_to_stream(scale))
    /\ call' = [call EXCEPT !.op = "operator<<"]
    /\ err' = "none"
    /\ pc' = "rendered"
    /\ UNCHANGED <<root, rootCall, note, scale, notes, reparsed, sm, am, prog>>

\* stream >> other, with the rendered text in the stream
ParseRendered ==
    /\ pc = "rendered"
    /\ LET parsed == scale_from_stream(value(ret))
       IN  /\ reparsed' = parsed.scale_degrees
           /\ err' = parsed.err
    /\ call' = [call EXCEPT !.op = "operator>> of rendered"]
    /\ pc' = "reparsed"
    /\ UNCHANGED <<root, rootCall, note, scale, notes, ret, sm, am, prog>>

Next ==
    \/ ParseScale
    \/ RenderScale
    \/ ParseRendered
    \/ ConstructRootFromMidi
    \/ AssignRootFromMidi
    \/ ConstructRootFromString
    \/ AssignRootFromString
    \/ ConstructFromRoot
    \/ AssignFromRoot
    \/ Realise
    \/ GetMidi
    \/ ReassignFromMidi
    \/ ReassignFromString
    \/ ReassignFromRoot
    \/ GetName
    \/ GetNameAndMidiString
    \/ ConstructFromPitchRead

Spec == Init /\ [][Next]_vars

-----------------------------------------------------------------------------
(* The quiz session: main, generate_session, the question loop *)

\* main: load_scales, then the call of generate_session with the clamped
\* difficulty
LoadScales ==
    /\ prog.pc = "main"
    /\ \E entries \in LoadedSets, n \in 0 .. MaxQuestions, d \in DifficultyArgs :
          /\ sm' = [sm EXCEPT !._entries = entries]
          /\ prog' = [prog EXCEPT !.pc = "generate_session",
                                !.number_of_questions = n,
                                !.difficulty = IF d > HARD THEN HARD ELSE d]
    /\ UNCHANGED <<libraryVars, am>>

\* generate_session: the check that scales are loaded
GenerateSession ==
    /\ prog.pc = "generate_session"
    /\ prog' = IF Len(sm._entries) = 0
              THEN [prog EXCEPT !.pc = "generate_session threw",
                               !.error = "FORGOT_TO_LOAD_SCALES"]
              ELSE [prog EXCEPT !.pc = "for", !.i = 0]
    /\ UNCHANGED <<libraryVars, sm, am>>

\* get_random_scales_by_difficulty: for (i = 0; i < number_of_scales; ++i)
ForEachScale ==
    /\ prog.pc = "for"
    /\ prog' = IF prog.i < prog.number_of_questions
              THEN [prog EXCEPT !.pc = "while", !.sampled = FALSE]
              ELSE [prog EXCEPT !.pc = "choose"]
    /\ UNCHANGED <<libraryVars, sm, am>>

\* while (!sampled || diff_counts[sampled_difficulty] == 0), and after the
\* loop the emplace_back of the sampled difficulty
WhileNotSampled ==
    /\ prog.pc = "while"
    /\ prog' = IF ~prog.sampled
                 \/ difficulty_map_count(sm._entries, prog.sampled_difficulty) = 0
              THEN [prog EXCEPT !.pc = "draw"]
              ELSE [prog EXCEPT !.pc = "for", !.i = @ + 1,
                               !.sampled_difficulties =
                                   Append(@, prog.sampled_difficulty)]
    /\ UNCHANGED <<libraryVars, sm, am>>

\* sampled_difficulty = diff_dist(gen), a difficulty that has scales
DrawLoaded ==
    /\ prog.pc = "draw"
    /\ \E d \in EASY .. prog.difficulty :
          /\ difficulty_map_count(sm._entries, d) > 0
          /\ prog' = [prog EXCEPT !.pc = "while", !.sampled = TRUE,
                                !.sampled_difficulty = d]
    /\ UNCHANGED <<libraryVars, sm, am>>

\* sampled_difficulty = diff_dist(gen), a difficulty that has no scales
DrawUnloaded ==
    /\ prog.pc = "draw"
    /\ \E d \in EASY .. prog.difficulty :
          /\ difficulty_map_count(sm._entries, d) = 0
          /\ prog' = [prog EXCEPT !.pc = "while", !.sampled = TRUE,
                                !.sampled_difficulty = d]
    /\ UNCHANGED <<libraryVars, sm, am>>

\* for (d : sampled_difficulties): one scale of that difficulty is chosen
ChooseScale ==
    /\ prog.pc = "choose"
    /\ IF Len(prog.sampled_scales) < Len(prog.sampled_difficulties)
       THEN LET d == prog.sampled_difficulties[Len(prog.sampled_scales) + 1]
                scales_for_d == difficulty_map_equal_range(sm._entries, d)
            IN  \E chosen_scale_in_diff \in 1 .. Len(scales_for_d) :
                   prog' = [prog EXCEPT !.sampled_scales =
                                          Append(@, scales_for_d[chosen_scale_in_diff])]
       ELSE prog' = [prog EXCEPT !.pc = "questions"]
    /\ UNCHANGED <<libraryVars, sm, am>>

\* generate_session, for (scale : generated_scales): the options of one
\* question are sampled and shuffled, and the question is stored
MakeQuestion ==
    /\ prog.pc = "questions"
    /\ IF Len(am._session) < Len(prog.sampled_scales)
       THEN LET scale_entry == prog.sampled_scales[Len(am._session) + 1]
                not_same_names == SelectSeq(scale_names(sm._entries),
                                            LAMBDA name : name # scale_entry.name)
            IN  \E sampled_names \in sample_outcomes(not_same_names,
                                                     NUMBER_OF_CHOICES - 1) :
                \E possible_names \in shuffle_outcomes(<<scale_entry.name>>
                                                       \o sampled_names) :
                   /\ am' = [am EXCEPT !._session =
                                Append(@, Question(scale_entry, possible_names,
                                                   find_index(possible_names,
                                                              scale_entry.name, 1)))]
                   /\ prog' = prog
       ELSE /\ prog' = [prog EXCEPT !.pc = "can_print_more"]
            /\ am' = am
    /\ UNCHANGED <<libraryVars, sm>>

\* main loop: can_print_more holds; print_header and print_question.
\* Reading _options[i] for i < NUMBER_OF_CHOICES past the end of a shorter
\* option list is undefined: the read may give garbage or end the program
PrintQuestion ==
    /\ prog.pc = "can_print_more"
    /\ am._question_index < Len(am._session)
    /\ LET current_q == am._session[am._question_index + 1]
       IN  IF Len(current_q._options) < NUMBER_OF_CHOICES
           THEN \E outcome \in {"load_answer", "crashed"} :
                   prog' = [prog EXCEPT !.pc = outcome]
           ELSE prog' = [prog EXCEPT !.pc = "load_answer"]
    /\ UNCHANGED <<libraryVars, sm, am>>

\* load_answer: guessed_index = answer - 1 in size_t, -1 standing for the
\* wrapped value
LoadAnswer ==
    /\ prog.pc = "load_answer"
    /\ \E answer \in AnswerInputs :
          LET guessed_index == answer - 1
          IN  am' = IF guessed_index = am._session[am._question_index + 1]._correct_index
                    THEN [am EXCEPT !._correct = @ + 1,
                                    !._correct_questions = Append(@, TRUE)]
                    ELSE [am EXCEPT !._correct_questions = Append(@, FALSE)]
    /\ prog' = [prog EXCEPT !.pc = "next_question"]
    /\ UNCHANGED <<libraryVars, sm>>

\* next_question
NextQuestion ==
    /\ prog.pc = "next_question"
    /\ am' = [am EXCEPT !._question_index = @ + 1]
    /\ prog' = [prog EXCEPT !.pc = "can_print_more"]
    /\ UNCHANGED <<libraryVars, sm>>

\* main loop left; save_session_results, whose file may fail to open
SaveSessionResults ==
    /\ prog.pc = "can_print_more"
    /\ ~(am._question_index < Len(am._session))
    /\ \E good \in BOOLEAN :
          prog' = IF ~good
                 THEN [prog EXCEPT !.pc = "save_session_results threw",
                                  !.error = "BAD_FILE_OPEN"]
                 ELSE IF Len(am._correct_questions) < Len(am._session)
                 THEN [prog EXCEPT !.pc = "crashed"]
                 ELSE [prog EXCEPT !.pc = "saved"]
    /\ UNCHANGED <<libraryVars, sm, am>>

SessionNext ==
    \/ LoadScales
    \/ GenerateSession
    \/ ForEachScale
    \/ WhileNotSampled
    \/ DrawLoaded
    \/ DrawUnloaded
    \/ ChooseScale
    \/ MakeQuestion
    \/ PrintQuestion
    \/ LoadAnswer
    \/ NextQuestion
    \/ SaveSessionResults

\* the program keeps running, and the generator does not withhold the
\* difficulties that have scales for ever
Session ==
    /\ Init
    /\ [][SessionNext]_vars
    /\ WF_vars(SessionNext)
    /\ SF_vars(DrawLoaded)


-----------------------------------------------------------------------------
(* Properties *)

\* the semitone offsets of the seven letters as the claims state them
diff == <<0, 2, 4, 5, 7, 9, 11>>

\* the last call built or re-assigned note from (root, scale_degree, accidentals)
BuiltFromRoot ==
    /\ pc = "done"
    /\ call.op \in {"Note(root)", "set_note(root)"}

RootHasOneNaming ==
    /\ has_value(value(root).names_)
    /\ Len(value(value(root).names_)) = 1

RootNaming == value(value(root).names_)[1]

NoteHasOneNaming ==
    /\ has_value(note)
    /\ has_value(value(note).names_)
    /\ Len(value(value(note).names_)) = 1

NoteNaming == value(value(note).names_)[1]

\* C1: for a root with the single naming (L, a), |a| <= 2, a degree d in
\* 1..14 and a requested accidental x, |x| <= 2, the built Note has the
\* accidental a + x + diff[(d-1) mod 7] - ((diff[N] - diff[L]) mod 12) with
\* N = (L + d - 1) mod 7.
C1_SpelledAccidentalIsExact ==
    (/\ BuiltFromRoot
     /\ RootHasOneNaming
     /\ Abs(RootNaming.accidentals_) <= 2
     /\ call.scale_degree \in 1 .. 14
     /\ Abs(call.accidentals) <= 2)
    => LET L == RootNaming.base_degree_
           a == RootNaming.accidentals_
           d == call.scale_degree
           x == call.accidentals
           N == (L + d - 1) % 7
       IN  /\ err = "none"
           /\ NoteHasOneNaming
           /\ NoteNaming.accidentals_ =
                 a + x + diff[((d - 1) % 7) + 1] - ((diff[N + 1] - diff[L + 1]) % 12)

\* C2: for a root with the single naming (L, a), a degree d >= 1 and any
\* accidental x, the built Note has exactly one naming and its letter index
\* is (L + d - 1) mod 7.
C2_SpelledLetter ==
    (/\ BuiltFromRoot
     /\ RootHasOneNaming
     /\ call.scale_degree >= 1)
    => /\ err = "none"
       /\ NoteHasOneNaming
       /\ NoteNaming.base_degree_ = (RootNaming.base_degree_ + call.scale_degree - 1) % 7

C2_Witness ==
    /\ BuiltFromRoot
    /\ call.op = "Note(root)"
    /\ RootHasOneNaming
    /\ RootNaming = NamingInformation(6, -1)
    /\ call.scale_degree = 11
    /\ call.accidentals = 1
    /\ NoteHasOneNaming
    /\ NoteNaming.base_degree_ = 2

\* C3: for a root with pitch P, a degree d >= 1 and any accidental x, the
\* construction succeeds and the result's pitch is
\* P + diff[(d-1) mod 7] + 12 * floor((d-1)/7) + x.
C3_SpelledPitch ==
    (/\ BuiltFromRoot
     /\ has_value(value(root).midi_)
     /\ call.scale_degree >= 1)
    => /\ err = "none"
       /\ has_value(note)
       /\ has_value(value(note).midi_)
       /\ value(value(note).midi_).midi_value_ =
             value(value(root).midi_).midi_value_
             + diff[((call.scale_degree - 1) % 7) + 1]
             + 12 * ((call.scale_degree - 1) \div 7)
             + call.accidentals

C3_Witness ==
    /\ BuiltFromRoot
    /\ call.op = "Note(root)"
    /\ rootCall.op = "Note(midi)"
    /\ rootCall.midi = 61
    /\ rootCall.generate_names
    /\ call.scale_degree = 10
    /\ call.accidentals = -1
    /\ has_value(note)
    /\ get_midi(value(note)).val = Some(61 + 4 + 12 - 1)

\* C4: after a successful construction from (root, degree >= 1, accidental)
\* the result has a pitch iff the root has one, and has a naming, exactly
\* one, iff the root has exactly one naming.
C4_FacetsFollowRoot ==
    (/\ pc = "done"
     /\ call.op = "Note(root)"
     /\ call.scale_degree >= 1
     /\ err = "none")
    => /\ has_value(note)
       /\ has_value(value(note).midi_) <=> has_value(value(root).midi_)
       /\ has_value(value(note).names_) <=> RootHasOneNaming
       /\ has_value(value(note).names_) => Len(value(value(note).names_)) = 1

C4_Witness ==
    /\ pc = "done"
    /\ call.op = "Note(root)"
    /\ call.scale_degree = 5
    /\ err = "none"
    /\ has_value(value(root).midi_)
    /\ has_value(value(root).names_)
    /\ Len(value(value(root).names_)) = 2
    /\ has_value(value(note).midi_)
    /\ ~has_value(value(note).names_)

\* root was built from a pitch with name generation and carries two namings
RootIsTwoNamedPitch ==
    /\ rootCall.op \in {"Note(midi)", "set_note(midi)"}
    /\ rootCall.generate_names
    /\ has_value(value(root).names_)
    /\ Len(value(value(root).names_)) = 2

\* the Scale realised holds an entry of degree 2 or more
ScaleHasHigherDegree == \E i \in 1 .. Len(scale) : scale[i][1] >= 2

\* C5 as stated: a root built from a pitch with name generation that carries
\* two namings, used for scale-degree construction with a degree other than
\* 1, directly or while realising a scale, fails with AmbiguousRoot.
C5_TwoNamedRootFails ==
    (/\ pc = "done"
     /\ RootIsTwoNamedPitch
     /\ \/ call.op = "Note(root)" /\ call.scale_degree >= 2
        \/ call.op = "RealisedScale(root,scale)" /\ ScaleHasHigherDegree)
    => err = "CREATION_NOT_BOTH_INFORMATION"

\* C5 amended: with such a root, which has a pitch, construction with a
\* degree >= 2 succeeds and gives a Note with a pitch and no naming, and a
\* realisation of a Scale of degrees >= 1 succeeds with such a Note at every
\* entry of degree >= 2; AmbiguousRoot is not raised.
C5_TwoNamedRootGivesPitchOnly ==
    (/\ pc = "done"
     /\ RootIsTwoNamedPitch)
    => /\ err # "CREATION_NOT_BOTH_INFORMATION"
       /\ (call.op = "Note(root)" /\ call.scale_degree >= 2)
          => /\ err = "none"
             /\ has_value(note)
             /\ has_value(value(note).midi_)
             /\ ~has_value(value(note).names_)
       /\ (/\ call.op = "RealisedScale(root,scale)"
           /\ \A i \in 1 .. Len(scale) : scale[i][1] >= 1)
          => /\ err = "none"
             /\ has_value(notes)
             /\ \A i \in 1 .. Len(scale) :
                   scale[i][1] >= 2
                   => /\ has_value(value(notes)[i].midi_)
                      /\ ~has_value(value(notes)[i].names_)

C5_Witness ==
    /\ pc = "done"
    /\ RootIsTwoNamedPitch
    /\ rootCall.midi = 61
    /\ call.op = "RealisedScale(root,scale)"
    /\ scale = << <<1, 0>>, <<3, -1>> >>
    /\ err = "none"
    /\ get_midi(value(notes)[2]).val = Some(64)
    /\ ~has_value(value(notes)[2].names_)

\* C6: constructing or re-assigning a Note from (root, degree 0, accidental)
\* fails with InvalidScaleDegree for every root and every accidental: no
\* Note is constructed, and a re-assigned Note keeps its state.
C6_DegreeZeroRejected ==
    (/\ BuiltFromRoot
     /\ call.scale_degree = 0)
    => /\ err = "INDEX_BASE_ERROR"
       /\ call.op = "Note(root)" => note = nullopt
       /\ call.op = "set_note(root)" => note = Some(NoteDefault)

C6_Witness ==
    /\ BuiltFromRoot
    /\ call.op = "set_note(root)"
    /\ call.scale_degree = 0
    /\ call.accidentals = 2
    /\ RootIsTwoNamedPitch
    /\ err = "INDEX_BASE_ERROR"

\* the last call built a RealisedScale and returned
Realised ==
    /\ pc = "done"
    /\ call.op = "RealisedScale(root,scale)"
    /\ err = "none"

\* C7: in a RealisedScale built from (root, scale), every entry of degree 1,
\* whatever its accidental and position, is a Note identical to the root.
C7_TonicIsRoot ==
    Realised
    => /\ has_value(notes)
       /\ \A i \in 1 .. Len(scale) :
             scale[i][1] = 1 => value(notes)[i] = value(root)

C7_Witness ==
    /\ Realised
    /\ RootIsTwoNamedPitch
    /\ scale = << <<3, 0>>, <<1, -1>> >>
    /\ value(notes)[2] = value(root)
    /\ value(notes)[1] # value(root)

\* C8: a successfully built RealisedScale has as many Notes as the Scale has
\* entries, and for every entry (d, x) with d # 1 the Note at its index is
\* the Note constructed from (root, d, x).
C8_IndexAligned ==
    Realised
    => /\ has_value(notes)
       /\ Len(value(notes)) = Len(scale)
       /\ \A i \in 1 .. Len(scale) :
             scale[i][1] # 1
             => \E made \in {NoteFromRoot(value(root), scale[i][1], scale[i][2])} :
                    /\ made.err = "none"
                    /\ value(notes)[i] = value(made.note)

C8_Witness ==
    /\ Realised
    /\ RootHasOneNaming
    /\ has_value(value(root).midi_)
    /\ scale = << <<9, 1>>, <<3, -1>> >>
    /\ Len(value(notes)) = 2
    /\ value(notes)[1] # value(notes)[2]

\* the root was built from a name string and its pitch was read and used
\* to construct note with name generation
RoundTripped ==
    /\ pc = "done"
    /\ call.op = "Note(midi)"
    /\ rootCall.op \in {"Note(name)", "set_note(name)"}

NoteNamings == {value(value(note).names_)[i] : i \in 1 .. Len(value(value(note).names_))}

\* the spellings the pitch table holds: naturals, C# D# F# G# A#, Db Eb Gb Ab Bb
InPitchTable(naming) ==
    \/ naming.accidentals_ = 0
    \/ naming.accidentals_ = 1 /\ naming.base_degree_ \in {0, 1, 3, 4, 5}
    \/ naming.accidentals_ = -1 /\ naming.base_degree_ \in {1, 2, 4, 5, 6}

\* C9 as stated: for every valid name string with an octave, the Note built
\* with name generation from the pitch of the Note built from the string has
\* a naming set that contains the string's (letter, accidental) naming.
C9_NameSurvivesPitchRoundTrip ==
    RoundTripped
    => /\ has_value(value(note).names_)
       /\ RootNaming \in NoteNamings

\* C9 amended: the naming set contains the original naming when that naming
\* is a natural, a single sharp on C, D, F, G or A, or a single flat on D, E,
\* G, A or B.
C9_TableNameSurvivesPitchRoundTrip ==
    (RoundTripped /\ InPitchTable(RootNaming))
    => /\ has_value(value(note).names_)
       /\ RootNaming \in NoteNamings

C9_Witness ==
    /\ RoundTripped
    /\ rootCall.name = <<"E", "b", "3">>
    /\ RootNaming = NamingInformation(2, -1)
    /\ call.midi = 51
    /\ NoteNamings = {NamingInformation(1, 1), NamingInformation(2, -1)}

\* C10: for every pitch p and both settings of the name-generation flag,
\* after constructing a Note from p or re-assigning a Note to p, reading its
\* pitch returns p.
C10_PitchReadBack ==
    (/\ call.op = "get_midi()"
     /\ rootCall.op \in {"Note(midi)", "set_note(midi)"})
    => /\ err = "none"
       /\ ret = Some(rootCall.midi)

C10_Witness ==
    /\ call.op = "get_midi()"
    /\ rootCall.op = "set_note(midi)"
    /\ ~rootCall.generate_names
    /\ rootCall.midi = 47
    /\ ret = Some(47)

\* root was built from or re-assigned to a pitch
RootFromMidi == rootCall.op \in {"Note(midi)", "set_note(midi)"}

\* root was built from or re-assigned to a name string, and the call returned
RootFromName ==
    /\ rootCall.op \in {"Note(name)", "set_note(name)"}
    /\ pc # "start"
    /\ pc # "failed"

RootNames == value(value(root).names_)

\* C11: with offset = ((p - 60) mod 12 + 12) mod 12, the naming set of
\* Note(p, generate names) is one naming (letter, 0) when the offset is the
\* offset of a letter, and otherwise the sharp spelling (lower letter, +1)
\* followed by the flat spelling (upper letter, -1); every naming (L, a) has
\* diff[L] + a = offset.  This holds below 60 as well.
C11_NamingsOfPitch ==
    (RootFromMidi /\ rootCall.generate_names)
    => LET p == rootCall.midi
           offset == (((p - 60) % 12) + 12) % 12
       IN  /\ has_value(value(root).names_)
           /\ \A i \in 1 .. Len(RootNames) :
                 /\ RootNames[i].base_degree_ \in 0 .. 6
                 /\ diff[RootNames[i].base_degree_ + 1] + RootNames[i].accidentals_ = offset
           /\ IF offset \in {0, 2, 4, 5, 7, 9, 11}
              THEN /\ Len(RootNames) = 1
                   /\ RootNames[1].accidentals_ = 0
              ELSE /\ Len(RootNames) = 2
                   /\ RootNames[1].accidentals_ = 1
                   /\ RootNames[2].accidentals_ = -1
                   /\ RootNames[2].base_degree_ = RootNames[1].base_degree_ + 1

C11_Witness ==
    /\ RootFromMidi
    /\ rootCall.generate_names
    /\ rootCall.midi = 46
    /\ RootNames = <<NamingInformation(5, 1), NamingInformation(6, -1)>>

\* C12: the octave of a Note constructed from a pitch p is
\* 4 + floor((p - 60) / 12), also for the multiples of 12 below 60.
C12_OctaveIsFloor ==
    RootFromMidi
    => value(value(root).midi_).octave_ = 4 + ((rootCall.midi - 60) \div 12)

\* the octave texts of the name inputs and the numbers they denote
OctaveOfText == { <<<<"4">>, 4>>, <<<<"3">>, 3>>, <<<<"-", "1">>, -1>> }

C14_MixedAccidentalsRejected ==
    (/\ rootCall.op = "Note(name)"
     /\ \E l \in LetterTexts, o \in OctaveTexts :
           \/ rootCall.name = l \o <<"b", "#">> \o o
           \/ rootCall.name = l \o <<"#", "b">> \o o)
    => /\ pc = "failed"
       /\ err \in {"BOTH_ACCIDENTALS_FOUND", "INVALID_NOTE_NAME_FOUND"}
       /\ root = nullopt

-----------------------------------------------------------------------------
(* Scale text *)

\* the tokens of the inputs that are in the shorthand grammar: a prog of
\* flats or a prog of sharps, then a positive degree
GrammarTokens ==
    {<<"1">>, <<"2">>, <<"b", "3">>, <<"b", "b", "7">>, <<"#", "4">>,
     <<"#", "#", "5">>, <<"1", "0">>}

ParsedText == call.op = "operator>>"
Rendered == call.op \in {"operator<<", "operator>> of rendered"}
Reparsed == call.op = "operator>> of rendered"

\* the tokens before token i are grammar tokens, so token i is reached
ReachesToken(i) == \A j \in 1 .. i - 1 : call.tokens[j] \in GrammarTokens

\* C15: parsing a text of the shorthand grammar and rendering the parsed
\* Scale returns the same text.
C15_ScaleTextRoundTrip ==
    (/\ Rendered
     /\ \A i \in DOMAIN call.tokens : call.tokens[i] \in GrammarTokens)
    => ret = Some(call.text)

\* the text the entry should get: |accidental| symbols, then the degree
EntryText(sd) ==
    Repeat(IF sd[2] < 0 THEN downward_accidental ELSE upward_accidental, Abs(sd[2]))
    \o size_t_text(sd[1])

RECURSIVE EntryTextsFrom(_, _)
EntryTextsFrom(scale_degrees, i) ==
    IF i > Len(scale_degrees) THEN <<>>
    ELSE (IF i > 1 THEN <<SCALE_DEGREE_SEPERATOR, " ">> ELSE <<>>)
         \o EntryText(scale_degrees[i]) \o EntryTextsFrom(scale_degrees, i + 1)

\* C16: rendering writes, for every entry, |accidental| flat symbols
\* (accidental < 0) or sharp symbols (accidental > 0) directly before the
\* degree number, and none for accidental 0.
C16_RenderedAccidentals ==
    Rendered => ret = Some(EntryTextsFrom(scale, 1))

\* C17: for a Scale of at least two entries, parsing its rendered text
\* succeeds and gives the same (degree, accidental) sequence.
C17_RenderedTextParsesBack ==
    (Reparsed /\ Len(scale) >= 2) => (err = "none" /\ reparsed = scale)

HasBothAccidentals(token) ==
    /\ \E i \in DOMAIN token : token[i] = downward_accidental
    /\ \E i \in DOMAIN token : token[i] = upward_accidental

HasNoDigits(token) == \A i \in DOMAIN token : token[i] \notin DigitChars

\* C18: a token holding both flat and sharp characters, in either order,
\* fails with ConflictingAccidentals, a token without digits fails with
\* MissingDegree, and neither produces an entry.
C18_MalformedTokens ==
    ParsedText =>
        \A i \in DOMAIN call.tokens :
            LET token == call.tokens[i]
            IN  (ReachesToken(i) /\ (HasBothAccidentals(token) \/ HasNoDigits(token)))
                => /\ pc = "failed"
                   /\ Len(scale) < i
                   /\ HasBothAccidentals(token) => err = "BOTH_ACCIDENTALS_FOUND"
                   /\ (HasNoDigits(token) /\ ~HasBothAccidentals(token))
                         => err = "NO_SCALE_DEGREE"

\* the degree field of a token is negative or zero
DegreeNotPositive(token) ==
    LET field == scale_degree_regex_search(token)[3]
    IN  /\ ~HasNoDigits(field)
        /\ \/ field[1] = "-"
           \/ \A i \in DOMAIN field : field[i] = "0"

\* C19: a token whose degree field is negative or zero is rejected and
\* produces no entry; every entry of a parsed Scale has a degree >= 1.
C19_DegreesPositive ==
    ParsedText =>
        /\ \A i \in DOMAIN scale : scale[i][1] >= 1
        /\ \A i \in DOMAIN call.tokens :
              (ReachesToken(i) /\ DegreeNotPositive(call.tokens[i]))
              => (pc = "failed" /\ Len(scale) < i)

-----------------------------------------------------------------------------
(* Accessors *)

RootHasPitch == has_value(value(root).midi_)
RootHasNaming == has_value(value(root).names_) /\ value(value(root).names_) # <<>>

\* C20: reading the pitch fails with NoPitchInformation exactly when the
\* Note has no pitch, reading the simple name fails with NoNameInformation
\* exactly when it has no naming, reading the complex name fails with
\* MissingInformation exactly when pitch or naming is absent; otherwise
\* the accessor returns a value.
C20_AccessorFailures ==
    /\ call.op = "get_midi()" =>
          IF RootHasPitch THEN err = "none" /\ has_value(ret)
          ELSE err = "NO_MIDI_INFORMATION" /\ ret = nullopt
    /\ call.op = "get_name()" =>
          IF RootHasNaming THEN err = "none" /\ has_value(ret)
          ELSE err = "NO_NAME_INFORMATION" /\ ret = nullopt
    /\ call.op = "get_name_and_midi_string()" =>
          IF RootHasPitch /\ RootHasNaming THEN err = "none" /\ has_value(ret)
          ELSE err = "NOT_BOTH_INFORMATION" /\ ret = nullopt

C20_Witness ==
    /\ call.op = "get_name_and_midi_string()"
    /\ RootHasPitch
    /\ ~RootHasNaming
    /\ err = "NOT_BOTH_INFORMATION"

-----------------------------------------------------------------------------
(* Names as text *)

\* the text of one naming: the letter, then |accidental| symbols
NamingText(naming) ==
    <<note_names[naming.base_degree_ + 1]>>
    \o Repeat(IF naming.accidentals_ < 0 THEN downward_accidental
              ELSE upward_accidental, Abs(naming.accidentals_))

RECURSIVE JoinedNamingTexts(_, _)
JoinedNamingTexts(names, i) ==
    IF i > Len(names) THEN <<>>
    ELSE (IF i > 1 THEN <<NOTE_PRINT_SEPERATOR>> ELSE <<>>)
         \o NamingText(names[i]) \o JoinedNamingTexts(names, i + 1)

\* C21 as stated: the simple name of a Note with at least one naming is the
\* text of its first naming only.
C21_SimpleNameFirstOnly ==
    (call.op = "get_name()" /\ err = "none")
    => ret = Some(NamingText(RootNames[1]))

\* C21 amended: the simple name is the texts of all namings of the Note, in
\* order, joined by the print separator "/".
C21_SimpleNameAllNamings ==
    (call.op = "get_name()" /\ err = "none")
    => ret = Some(JoinedNamingTexts(RootNames, 1))

C21_Witness ==
    /\ call.op = "get_name()"
    /\ err = "none"
    /\ rootCall.op = "Note(midi)"
    /\ rootCall.midi = 61
    /\ Len(RootNames) = 2
    /\ ret = Some(<<"C", "#", "/", "D", "b">>)

\* the complex name of a Note with both facets, from its current facets:
\* per naming, the joined names, the octave and the pitch in brackets
RECURSIVE ComplexTextFrom(_, _)
ComplexTextFrom(n, i) ==
    IF i > Len(value(n.names_)) THEN <<>>
    ELSE (IF i > 1 THEN <<NOTE_PRINT_SEPERATOR>> ELSE <<>>)
         \o JoinedNamingTexts(value(n.names_), 1)
         \o int_text(value(n.midi_).octave_)
         \o <<" ", "(">> \o int_text(value(n.midi_).midi_value_) \o <<")">>
         \o ComplexTextFrom(n, i + 1)

\* C22: whatever constructions, set_note calls and accessor calls came
\* before, an accessor call returns the rendering of the Note's current
\* pitch and namings.
C22_NameCacheCoherent ==
    /\ (call.op = "get_name()" /\ err = "none")
       => value(ret) = JoinedNamingTexts(RootNames, 1)
    /\ (call.op = "get_name_and_midi_string()" /\ err = "none")
       => value(ret) = ComplexTextFrom(value(root), 1)

\* the simple name is read after the Note changed since its complex name
\* was computed
C22_Witness ==
    /\ pc = "renamed"
    /\ call.op = "get_name()"
    /\ err = "none"
    /\ RootHasPitch
    /\ value(root).complex_name # <<>>
    /\ value(root).complex_name # ComplexTextFrom(value(root), 1)
    /\ value(ret) = JoinedNamingTexts(RootNames, 1)

-----------------------------------------------------------------------------
(* Failed parse, re-assignment, reachable Notes *)

\* C23: when parsing a text into a Scale fails on a token with
\* ConflictingAccidentals or MissingDegree, the Scale does not hold the
\* entries of the tokens before the bad one.
C23_NoPartialScale ==
    (/\ ParsedText
     /\ pc = "failed"
     /\ err \in {"BOTH_ACCIDENTALS_FOUND", "NO_SCALE_DEGREE"})
    => scale = <<>>

\* the Note a constructor makes from the arguments of a set_note call
FreshFromCall(c) ==
    CASE c.op = "set_note(midi)" -> NoteFromMidi(c.midi, c.generate_names)
      [] c.op = "set_note(name)" -> value(NoteFromString(c.name).note)
      [] c.op = "set_note(root)" ->
            value(NoteFromRoot(value(c.scale_root), c.scale_degree, c.accidentals).note)

SameFacets(a, b) == a.midi_ = b.midi_ /\ a.names_ = b.names_

\* C24: after a successful set_note, in any of its three forms and from
\* any prior state, the Note has the pitch and the naming set of a Note
\* freshly constructed from the same arguments.
C24_ReassignEqualsFresh ==
    /\ (/\ rootCall.op \in {"set_note(midi)", "set_note(name)", "set_note(root)"}
        /\ pc \notin {"start", "failed"})
       => SameFacets(value(root), FreshFromCall(rootCall))
    /\ (call.op = "set_note(root)" /\ err = "none")
       => SameFacets(value(note),
                     value(NoteFromRoot(value(root), call.scale_degree,
                                        call.accidentals).note))

NoteIsUsable(n) ==
    /\ has_value(n.midi_) \/ (has_value(n.names_) /\ Len(value(n.names_)) = 1)
    /\ has_value(n.names_) => Len(value(n.names_)) >= 1

\* C25: every Note made by the constructors and successful set_note calls
\* has a pitch or exactly one naming, and never an empty naming set; the
\* AmbiguousRoot failure is never raised.
C25_ReachableNotes ==
    /\ has_value(root) => NoteIsUsable(value(root))
    /\ has_value(note) => NoteIsUsable(value(note))
    /\ has_value(notes) => \A i \in DOMAIN value(notes) : NoteIsUsable(value(notes)[i])
    /\ err # "CREATION_NOT_BOTH_INFORMATION"

\* a two-named root was re-assigned from a root that has a name only
C25_Witness ==
    /\ pc = "reassigned"
    /\ rootCall.op = "set_note(root)"
    /\ ~has_value(value(rootCall.scale_root).midi_)
    /\ ~RootHasPitch
    /\ Len(RootNames) = 1
    /\ value(root).name_as_string = <<"C", "#", "/", "D", "b">>

-----------------------------------------------------------------------------
(* Spelling: consistency and periodicity *)

\* the naming and the pitch name the same pitch class
Consistent(naming, midi) ==
    (diff[naming.base_degree_ + 1] + naming.accidentals_ - midi) % 12 = 0

\* C26: if the root has a pitch P and exactly one naming (L, a) with
\* diff[L] + a congruent to P modulo 12, then for every degree d >= 1 and
\* accidental x the Note built from (root, d, x) has a pitch Q and a naming
\* (N, r) with diff[N] + r congruent to Q modulo 12.
C26_SpellingStaysConsistent ==
    (/\ BuiltFromRoot
     /\ RootHasPitch
     /\ RootHasOneNaming
     /\ Consistent(RootNaming, value(value(root).midi_).midi_value_)
     /\ call.scale_degree >= 1)
    => /\ err = "none"
       /\ NoteHasOneNaming
       /\ has_value(value(note).midi_)
       /\ Consistent(NoteNaming, value(value(note).midi_).midi_value_)

C26_Witness ==
    /\ BuiltFromRoot
    /\ call.op = "Note(root)"
    /\ call.scale_degree = 8
    /\ call.accidentals = 0
    /\ RootHasPitch
    /\ RootHasOneNaming
    /\ RootNaming = NamingInformation(0, 1)
    /\ value(value(root).midi_).midi_value_ = 61
    /\ value(value(note).midi_).midi_value_ = 73
    /\ NoteNaming = NamingInformation(0, -11)

\* C27: for a degree d in 1..7 and an accidental x, the Note built from
\* (root, d + 7, x) has the naming of the Note built from (root, d, x) when
\* the root has exactly one naming, and a pitch exactly 12 higher when the
\* root has a pitch; for degree 8 and accidental 0 the naming is the root's.
C27_OctavePeriodicity ==
    (/\ BuiltFromRoot
     /\ call.op = "Note(root)"
     /\ call.scale_degree \in 8 .. 14)
    => LET low == generate_naming_and_midi_from_root_and_scale_degree(
                      value(root), call.scale_degree - 7, call.accidentals)
       IN  /\ err = "none"
           /\ RootHasOneNaming
              => (NoteHasOneNaming /\ NoteNaming = value(low.naming))
           /\ RootHasPitch
              => /\ has_value(value(note).midi_)
                 /\ value(value(note).midi_).midi_value_
                       = value(low.midi).midi_value_ + 12
           /\ (RootHasOneNaming /\ call.scale_degree = 8 /\ call.accidentals = 0)
              => NoteNaming = RootNaming

-----------------------------------------------------------------------------
(* The quiz session *)

\* generate_session has returned to main
SessionGenerated ==
    prog.pc \in {"can_print_more", "load_answer", "next_question", "crashed",
                 "saved", "save_session_results threw"}

\* how often name occurs in options
Occurrences(options, name) ==
    Cardinality({i \in DOMAIN options : options[i] = name})

\* C28: after generate_session succeeded on a non-empty set of loaded
\* scales, every Question holds exactly NUMBER_OF_CHOICES options, the
\* correct name occurs among them exactly once at _correct_index, and
\* print_question never reads past the end of the option list.
C28_QuizOptions ==
    (SessionGenerated /\ Len(sm._entries) > 0)
    => /\ \A q \in DOMAIN am._session :
             LET question == am._session[q]
             IN  /\ Len(question._options) = NUMBER_OF_CHOICES
                 /\ Occurrences(question._options, question._rs.name) = 1
                 /\ question._correct_index < NUMBER_OF_CHOICES
                 /\ question._options[question._correct_index + 1] = question._rs.name
       /\ prog.pc # "crashed"

\* get_random_scales_by_difficulty has returned
SamplingReturned ==
    prog.pc \in {"questions"} \/ SessionGenerated

\* C29: with at least one scale loaded, get_random_scales_by_difficulty
\* terminates for every n and every requested difficulty, and returns
\* exactly n entries, none of a difficulty above the requested one.
C29_SamplingTerminates ==
    /\ [](SamplingReturned
          => /\ Len(prog.sampled_scales) = prog.number_of_questions
             /\ \A i \in DOMAIN prog.sampled_scales :
                   prog.sampled_scales[i].difficulty <= prog.difficulty)
    /\ (prog.pc = "for") ~> SamplingReturned

\* the main loop is over: left normally, or the program ended inside it
MainLoopOver ==
    prog.pc \in {"crashed", "saved", "save_session_results threw"}

Answered ==
    am._question_index + (IF prog.pc = "next_question" THEN 1 ELSE 0)

\* C30: the loop body runs exactly n times and then stops; in every state
\* _correct_questions has one entry per answered question, _correct is the
\* number of true entries and at most the number answered; when
\* save_session_results runs, _correct_questions is as long as _session.
C30_SessionProtocol ==
    /\ Len(am._correct_questions) = Answered
    /\ am._correct = Cardinality({i \in DOMAIN am._correct_questions :
                                     am._correct_questions[i]})
    /\ am._correct <= Answered
    /\ MainLoopOver
       => /\ am._question_index = prog.number_of_questions
          /\ Len(am._correct_questions) = Len(am._session)

====
